---- MODULE Spec2Model ----
(***************************************************************************)
(* Attendance backend (attendance/views.py): the time-bucketed chart cache *)
(* kept as files in CHART_CACHE_DIR, the chart endpoints that use it, and  *)
(* the analysis endpoint that groups Employee rows.                        *)
(*                                                                         *)
(* File names and cache keys are modelled as Python builds them: strings,  *)
(* here sequences of one-character strings, so that str.startswith is a    *)
(* real prefix test on the text of the name.                               *)
(***************************************************************************)
EXTENDS Integers, Sequences, FiniteSets, TLC

VARIABLES
    now,        \* time.time(), in whole seconds
    files,      \* CHART_CACHE_DIR: file name -> [data, stamp, by]; stamp (the
                \* time.time() behind the key of the last writer) and by (the
                \* last writer) are history kept with the file
    calls,      \* history: the helper calls made so far by a sequential caller
    employees,  \* Employee.objects: the rows of the table
    analysis,   \* the last response of DataAnalysisView.get
    pc,         \* per request thread: the statement it is about to run
    chart,      \* per request thread: the chart type of its endpoint
    key,        \* per request thread: cache_key of the helper it is in
    listing,    \* per request thread: what os.listdir returned, not yet visited
    at,         \* per request thread: the time.time() that went into key
    fd,         \* per request thread: the state of the file it opened for writing
    data,       \* per request thread: chart_data / the bytes read from the cache
    shot,       \* per request thread: what the rendered figure shows
    resp,       \* per request thread: the HTTP response, once returned
    served,     \* the number of chart requests accepted so far
    seen,       \* history: chart type -> the highest bucket index a lookup of it used
    fresh       \* history, per request thread: its lookup was the first of its
                \* chart type under its bucket index

vars == <<now, files, calls, employees, analysis, pc, chart, key, at, listing,
          fd, data, shot, resp, served, seen, fresh>>

----------------------------------------------------------------------------
(* Text *)

chart_ == <<"c", "h", "a", "r", "t", "_">>
png == <<".", "p", "n", "g">>

ChartTypes == {"departments", "roles", "attendance", "signatures", "combined"}

\* The characters of a chart type label.
TypeText(t) ==
    CASE t = "departments" -> <<"d","e","p","a","r","t","m","e","n","t","s">>
      [] t = "roles"       -> <<"r","o","l","e","s">>
      [] t = "attendance"  -> <<"a","t","t","e","n","d","a","n","c","e">>
      [] t = "signatures"  -> <<"s","i","g","n","a","t","u","r","e","s">>
      [] t = "combined"    -> <<"c","o","m","b","i","n","e","d">>

Digit(d) == <<"0","1","2","3","4","5","6","7","8","9">>[d + 1]

\* Python's str() of a non-negative int: its decimal text.
RECURSIVE str(_)
str(n) == IF n < 10 THEN <<Digit(n)>> ELSE str(n \div 10) \o <<Digit(n % 10)>>

\* str.startswith
startswith(s, prefix) ==
    /\ Len(prefix) <= Len(s)
    /\ SubSeq(s, 1, Len(prefix)) = prefix

----------------------------------------------------------------------------
(* The cache helpers *)

DefaultTimeout == 60

\* what a helper returns: None, or a bytes object
None == <<>>
Some(bytes) == <<bytes>>

\* int(time.time() / cache_timeout), for the non-negative clock of the model
Bucket(t, cache_timeout) == t \div cache_timeout

\* the key with the division turned around: int(cache_timeout / time.time())
cache_key_swapped(chart_type, t, cache_timeout) ==
    chart_ \o TypeText(chart_type) \o <<"_">> \o str(IF t = 0 THEN 0 ELSE cache_timeout \div t)

\* f'chart_{chart_type}_{int(time.time() / cache_timeout)}'
cache_key(chart_type, t, cache_timeout) ==
    chart_ \o TypeText(chart_type) \o <<"_">> \o str(Bucket(t, cache_timeout))

\* os.path.join(CHART_CACHE_DIR, f'{cache_key}.png'), as a name in the directory
cache_path(k) == k \o png

\* f'chart_{chart_type}_'
TypePrefix(chart_type) == chart_ \o TypeText(chart_type) \o <<"_">>

\* the name of the entry of a chart type and a bucket index
EntryName(type, bucket) == TypePrefix(type) \o str(bucket) \o png

\* the clean-up condition with the "not" on the wrong test
Stale_inverted(file, chart_type, k) ==
    /\ ~ startswith(file, TypePrefix(chart_type))
    /\ startswith(file, k)

\* a clean-up that removes the entries of every chart type but the new key's
Stale_anytype(file, chart_type, k) ==
    /\ startswith(file, chart_)
    /\ ~ startswith(file, k)

\* the condition under which the clean-up loop removes a listed file
Stale(file, chart_type, k) ==
    /\ startswith(file, TypePrefix(chart_type))
    /\ ~ startswith(file, k)

\* os.remove of each of the names: a name that is gone raises, which is swallowed
Remove(dir, names) == [f \in (DOMAIN dir) \ names |-> dir[f]]

\* open(path, 'wb'): creates the file or truncates it
OpenWb(dir, path, t) ==
    [f \in (DOMAIN dir) \cup {path} |->
        IF f # path THEN dir[f]
        ELSE [data |-> <<>>, stamp |-> t,
              by |-> IF f \in DOMAIN dir THEN dir[f].by ELSE "nobody"]]

\* f.write(image_data) from offset 0 on the file as it is now: the bytes past
\* the written ones stay
Overwrite(old, new) ==
    IF Len(new) >= Len(old) THEN new
    ELSE new \o SubSeq(old, Len(new) + 1, Len(old))

WriteAt(dir, path, bytes, t, who) ==
    [dir EXCEPT ![path] =
        [data |-> Overwrite(dir[path].data, bytes), stamp |-> t, by |-> who]]

\* get_cached_chart with the cache_timeout argument ignored in the key
get_cached_chart_default(dir, chart_type, t, cache_timeout) ==
    LET path == cache_path(cache_key(chart_type, t, DefaultTimeout))
    IN  IF path \in DOMAIN dir THEN Some(dir[path].data) ELSE None

\* get_cached_chart falling back to any entry of the chart type
get_cached_chart_fallback(dir, chart_type, t, cache_timeout) ==
    LET path == cache_path(cache_key(chart_type, t, cache_timeout))
        same == {f \in DOMAIN dir : startswith(f, TypePrefix(chart_type))}
    IN  IF path \in DOMAIN dir THEN Some(dir[path].data)
        ELSE IF same # {} THEN Some(dir[CHOOSE f \in same : TRUE].data)
        ELSE None

\* get_cached_chart, run without interruption at time t
get_cached_chart(dir, chart_type, t, cache_timeout) ==
    LET path == cache_path(cache_key(chart_type, t, cache_timeout))
    IN  IF path \in DOMAIN dir THEN Some(dir[path].data) ELSE None

\* save_cached_chart, run without interruption at time t: the directory it leaves
save_cached_chart(dir, chart_type, image_data, t, cache_timeout) ==
    LET k     == cache_key(chart_type, t, cache_timeout)
        path  == cache_path(k)
        stale == {f \in DOMAIN dir : Stale(f, chart_type, k)}
    IN  WriteAt(OpenWb(Remove(dir, stale), path, t), path, image_data, t, "caller")

----------------------------------------------------------------------------
(* Bounds and inputs *)

\* the instants of the clock the model visits: 599 and 600 lie in different
\* 60-second buckets (9, 10), 600 and 659 in the same one, 660 in the next (11)
Times == {599, 600, 659, 660}

\* the instants at which a direct caller of the helpers starts
StartTimes == {600}

\* the cache_timeout arguments a direct caller of the helpers passes
Windows == {DefaultTimeout, 600}

\* the byte strings a direct caller of the helpers stores
Blobs == {<<>>, <<1>>, <<2, 3>>}

\* a direct caller of the helpers makes at most this many calls
MaxCalls == 2

Threads == {"t1", "t2"}

NoFiles == [f \in {} |-> 0]

\* the entries of one chart type in the directory
EntriesOf(dir, t) == {f \in DOMAIN dir : startswith(f, TypePrefix(t))}

IdleLocals ==
    /\ key = [p \in Threads |-> <<>>]
    /\ at = [p \in Threads |-> 0]
    /\ listing = [p \in Threads |-> {}]
    /\ fd = [p \in Threads |-> "closed"]
    /\ data = [p \in Threads |-> <<>>]
    /\ shot = [p \in Threads |-> "none"]
    /\ resp = [p \in Threads |-> <<>>]
    /\ served = 0
    /\ seen = [t \in ChartTypes |-> -1]
    /\ fresh = [p \in Threads |-> FALSE]

IdleThreads ==
    /\ pc = [p \in Threads |-> "idle"]
    /\ chart = [p \in Threads |-> "none"]
    /\ IdleLocals

threadVars == <<pc, chart, key, at, listing, fd, data, shot, resp, served, seen, fresh>>

\* the clock moves forward
Clock(instants) ==
    /\ \E t \in instants : t > now /\ now' = t
    /\ UNCHANGED <<files, calls, employees, analysis, threadVars>>

Tick == Clock(Times)

----------------------------------------------------------------------------
(* The helpers called one after the other by a single caller *)

InitCache ==
    /\ now \in StartTimes
    /\ files = NoFiles
    /\ calls = <<>>
    /\ employees = <<>>
    /\ analysis = <<>>
    /\ IdleThreads

\* get_cached_chart(chart_type, cache_timeout)
CallGet ==
    \E t \in ChartTypes, w \in Windows :
        /\ Len(calls) < MaxCalls
        /\ calls' = Append(calls,
                [op |-> "get", type |-> t, window |-> w, bucket |-> Bucket(now, w), at |-> now,
                 bytes |-> get_cached_chart(files, t, now, w)])
        /\ UNCHANGED <<now, files, employees, analysis, threadVars>>

\* save_cached_chart(chart_type, image_data, cache_timeout)
CallSave ==
    \E t \in ChartTypes, w \in Windows, b \in Blobs :
        /\ Len(calls) < MaxCalls
        /\ files' = save_cached_chart(files, t, b, now, w)
        /\ calls' = Append(calls,
                [op |-> "save", type |-> t, window |-> w, bucket |-> Bucket(now, w), at |-> now,
                 bytes |-> b])
        /\ UNCHANGED <<now, employees, analysis, threadVars>>

NextCache == CallGet \/ CallSave \/ Tick

SpecCache == InitCache /\ [][NextCache]_vars

----------------------------------------------------------------------------
(* Claims about the helpers called one after the other *)

IsSave(c) == c.op = "save"
IsGet(c) == c.op = "get"

\* call j is a lookup of what call i stored, in the same bucket, with no
\* store between the two
ReadsBack(i, j) ==
    /\ i < j
    /\ IsSave(calls[i]) /\ IsGet(calls[j])
    /\ calls[j].type = calls[i].type
    /\ calls[j].window = calls[i].window
    /\ calls[j].bucket = calls[i].bucket
    /\ \A m \in (i + 1)..(j - 1) : ~ IsSave(calls[m])

\* C1: a lookup of the chart type and window just stored, made in the same
\* bucket with no store in between, returns exactly the bytes stored.
C1_StoreThenLookup ==
    \A i, j \in 1..Len(calls) : ReadsBack(i, j) => calls[j].bytes = Some(calls[i].bytes)

\* the lookup happens at a later instant of the same bucket and returns the
\* two stored bytes
C1_Witness ==
    \E i, j \in 1..Len(calls) :
        /\ ReadsBack(i, j)
        /\ calls[j].at > calls[i].at
        /\ calls[j].bytes = Some(<<2, 3>>)

\* the last two calls are stores of one chart type under different bucket indices
TwoStores ==
    /\ Len(calls) >= 2
    /\ IsSave(calls[Len(calls) - 1]) /\ IsSave(calls[Len(calls)])
    /\ calls[Len(calls) - 1].type = calls[Len(calls)].type
    /\ calls[Len(calls) - 1].bucket # calls[Len(calls)].bucket

\* C2: after two stores of one chart type under different bucket indices, the
\* only entry of that chart type is the second store's, holding its bytes.
C2_OneEntryAfterTwoStores ==
    TwoStores =>
        LET c == calls[Len(calls)]
        IN  /\ EntriesOf(files, c.type) = {EntryName(c.type, c.bucket)}
            /\ files[EntryName(c.type, c.bucket)].data = c.bytes

\* C3: a lookup returns bytes only when the entry named by exactly its chart
\* type and bucket index exists, and then that entry's bytes; otherwise it
\* returns None, whatever other entries the directory holds.
C3_ExactKeyOnly ==
    (Len(calls) >= 1 /\ IsGet(calls[Len(calls)])) =>
        LET c == calls[Len(calls)]
            name == EntryName(c.type, c.bucket)
        IN  /\ name \in DOMAIN files => c.bytes = Some(files[name].data)
            /\ name \notin DOMAIN files => c.bytes = None

\* a lookup returns None while an entry of its chart type exists under another
\* bucket index
C3_Witness ==
    /\ Len(calls) >= 1 /\ IsGet(calls[Len(calls)])
    /\ calls[Len(calls)].bytes = None
    /\ EntriesOf(files, calls[Len(calls)].type) # {}

----------------------------------------------------------------------------
(* The Employee table and the analysis endpoint *)

\* the instants of the clock around midnight of 1970-01-02: two dates
DayTimes == {86399, 86400, 86401}

SecondsPerDay == 86400

\* the table holds at most this many rows
MaxRows == 2

\* what a client posts: role, department and signature (which may be blank)
RowInputs ==
    { [department |-> "A", role |-> "dev", signature |-> "check-in"],
      [department |-> "A", role |-> "ops", signature |-> "check-out"],
      [department |-> "B", role |-> "dev", signature |-> ""],
      [department |-> "B", role |-> "ops", signature |-> "check-in"] }

\* EmployeeViewSet.create: time_posted is auto_now_add
CreateFrom(inputs) ==
    \E r \in inputs :
        /\ Len(employees) < MaxRows
        /\ employees' = Append(employees,
                [department |-> r.department, role |-> r.role,
                 signature |-> r.signature, time_posted |-> now])
        /\ UNCHANGED <<now, files, calls, analysis, threadVars>>

Create == CreateFrom(RowInputs)

\* EmployeeViewSet.update: every field but time_posted
Update ==
    \E i \in 1..Len(employees), r \in RowInputs :
        /\ employees' = [employees EXCEPT ![i] =
                [department |-> r.department, role |-> r.role,
                 signature |-> r.signature, time_posted |-> employees[i].time_posted]]
        /\ UNCHANGED <<now, files, calls, analysis, threadVars>>

\* EmployeeViewSet.destroy
Destroy ==
    \E i \in 1..Len(employees) :
        /\ employees' = SubSeq(employees, 1, i - 1) \o SubSeq(employees, i + 1, Len(employees))
        /\ UNCHANGED <<now, files, calls, analysis, threadVars>>

NoCounts == [v \in {} |-> 0]

\* one more occurrence of v in a label -> count mapping
Count1(counts, v) ==
    [x \in (DOMAIN counts) \cup {v} |->
        IF x \in DOMAIN counts
        THEN (IF x = v THEN counts[x] + 1 ELSE counts[x])
        ELSE 1]

\* value_counts with blank strings treated as missing values
RECURSIVE value_counts_dropblank(_)
value_counts_dropblank(values) ==
    IF values = <<>> THEN NoCounts
    ELSE IF values[Len(values)] = ""
         THEN value_counts_dropblank(SubSeq(values, 1, Len(values) - 1))
         ELSE Count1(value_counts_dropblank(SubSeq(values, 1, Len(values) - 1)),
                     values[Len(values)])

\* Series.value_counts().to_dict() of the values, read in row order: a blank
\* string is a value like any other
RECURSIVE value_counts(_)
value_counts(values) ==
    IF values = <<>> THEN NoCounts
    ELSE Count1(value_counts(SubSeq(values, 1, Len(values) - 1)), values[Len(values)])

\* pd.to_datetime(...).dt.date: the days since 1970-01-01
date(time_posted) == time_posted \div SecondsPerDay

\* str(date), for the dates of January 1970
IsoDate(d) ==
    <<"1","9","7","0","-","0","1","-">> \o
    (IF d + 1 < 10 THEN <<"0">> \o str(d + 1) ELSE str(d + 1))

Column(rows, name) == [i \in 1..Len(rows) |-> rows[i][name]]

\* {str(date): count for date, count in df.groupby('date').size().items()}
daily_counts(rows) ==
    value_counts([i \in 1..Len(rows) |-> IsoDate(date(rows[i].time_posted))])

\* the body with the early return for an empty table left out
AnalysisBody_noearly(rows) ==
    [total_records |-> Len(rows),
     checkin_vs_checkout |-> value_counts(Column(rows, "signature")),
     department_distribution |-> value_counts(Column(rows, "department")),
     role_distribution |-> value_counts(Column(rows, "role")),
     daily_attendance |-> daily_counts(rows)]

\* the body DataAnalysisView.get returns for the rows of the table
AnalysisBody(rows) ==
    IF rows = <<>>
    THEN [total_records |-> 0, message |-> "No data available"]
    ELSE [total_records |-> Len(rows),
          checkin_vs_checkout |-> value_counts(Column(rows, "signature")),
          department_distribution |-> value_counts(Column(rows, "department")),
          role_distribution |-> value_counts(Column(rows, "role")),
          daily_attendance |-> daily_counts(rows)]

\* GET analysis/
DataAnalysisView_get ==
    /\ analysis = <<>>
    /\ analysis' = <<[status |-> 200, body |-> AnalysisBody(employees)]>>
    /\ UNCHANGED <<now, files, calls, employees, threadVars>>

\* the client has received the response
AnalysisReturned ==
    /\ analysis # <<>>
    /\ analysis' = <<>>
    /\ UNCHANGED <<now, files, calls, employees, threadVars>>

InitAnalysis ==
    /\ now \in DayTimes
    /\ files = NoFiles
    /\ calls = <<>>
    /\ employees = <<>>
    /\ analysis = <<>>
    /\ IdleThreads

NextAnalysis ==
    \/ Create \/ Update \/ Destroy
    \/ DataAnalysisView_get \/ AnalysisReturned
    \/ Clock(DayTimes)

SpecAnalysis == InitAnalysis /\ [][NextAnalysis]_vars

----------------------------------------------------------------------------
(* Claims about the analysis endpoint *)

\* a step in which DataAnalysisView.get answers
AnalysisStep == analysis = <<>> /\ analysis' # <<>>

Distributions ==
    {"checkin_vs_checkout", "department_distribution", "role_distribution",
     "daily_attendance"}

RECURSIVE SumOver(_, _)
SumOver(m, keys) ==
    IF keys = {} THEN 0
    ELSE LET k == CHOOSE x \in keys : TRUE IN m[k] + SumOver(m, keys \ {k})

\* m maps every distinct value of vals, and nothing else, to the number of
\* positions holding it
CountsValues(m, vals) ==
    /\ DOMAIN m = {vals[i] : i \in 1..Len(vals)}
    /\ \A v \in DOMAIN m : m[v] = Cardinality({i \in 1..Len(vals) : vals[i] = v})
    /\ SumOver(m, DOMAIN m) = Len(vals)

\* the calendar day an instant falls on, counted from 1970-01-01
DayOf(t) ==
    CHOOSE d \in 0..30 : d * SecondsPerDay <= t /\ t < (d + 1) * SecondsPerDay

\* C7: for a non-empty table each distribution maps every distinct value of
\* its column (for daily_attendance, the calendar date of time_posted) to the
\* number of rows holding it, the counts of each sum to total_records, and
\* total_records is the number of rows.
C7_Distributions ==
    [][(AnalysisStep /\ employees # <<>>) =>
        LET body == analysis'[1].body
            rows == employees
        IN  /\ analysis'[1].status = 200
            /\ body.total_records = Len(rows)
            /\ CountsValues(body.department_distribution,
                            [i \in 1..Len(rows) |-> rows[i].department])
            /\ CountsValues(body.role_distribution,
                            [i \in 1..Len(rows) |-> rows[i].role])
            /\ CountsValues(body.checkin_vs_checkout,
                            [i \in 1..Len(rows) |-> rows[i].signature])
            /\ CountsValues(body.daily_attendance,
                            [i \in 1..Len(rows) |-> IsoDate(DayOf(rows[i].time_posted))])
       ]_vars

\* the endpoint has answered for two rows posted at different times of one
\* date, one of them with a blank signature: one date key with count 2
C7_Witness ==
    /\ analysis # <<>>
    /\ Len(employees) = 2
    /\ employees[1].time_posted # employees[2].time_posted
    /\ DayOf(employees[1].time_posted) = DayOf(employees[2].time_posted)
    /\ \E i \in 1..2 : employees[i].signature = ""
    /\ analysis[1].body.total_records = 2
    /\ analysis[1].body.daily_attendance =
          [k \in {IsoDate(DayOf(employees[1].time_posted))} |-> 2]

----------------------------------------------------------------------------
(* The chart endpoints, one statement at a time, on concurrent request threads *)

\* the chart requests accepted in a run
MaxRequests == 3

\* the row a client posts while charts are being requested
ChartRowInputs == {[department |-> "A", role |-> "dev", signature |-> "check-in"]}

\* the endpoints whose drawing code sits in a try of its own (attendance_chart,
\* signature_chart, panels 3 and 4 of DataVisualizationView.get)
HasInnerTry(type) == type \in {"attendance", "signatures", "combined"}

TypeCode(type) ==
    CASE type = "departments" -> 1
      [] type = "roles"       -> 2
      [] type = "attendance"  -> 3
      [] type = "signatures"  -> 4
      [] type = "combined"    -> 5

\* the label -> count mappings an endpoint draws, one per panel; the tables
\* of the model hold fewer than ten dates, so daily_counts.tail(10) keeps all
Drawn(type, rows) ==
    CASE type = "departments" -> <<value_counts(Column(rows, "department"))>>
      [] type = "roles"       -> <<value_counts(Column(rows, "role"))>>
      [] type = "signatures"  -> <<value_counts(Column(rows, "signature"))>>
      [] type = "attendance"  -> <<daily_counts(rows)>>
      [] type = "combined"    -> <<value_counts(Column(rows, "department")),
                                   value_counts(Column(rows, "role")),
                                   daily_counts(rows),
                                   value_counts(Column(rows, "signature"))>>

\* one byte per slice or bar of a panel
RECURSIVE CountBytes(_, _)
CountBytes(m, keys) ==
    IF keys = {} THEN <<>>
    ELSE LET k == CHOOSE x \in keys : TRUE
         IN  <<m[k]>> \o CountBytes(m, keys \ {k})

\* the bytes of the panels, in order
RECURSIVE PanelBytes(_)
PanelBytes(panels) ==
    IF panels = <<>> THEN <<>>
    ELSE CountBytes(panels[1], DOMAIN panels[1]) \o PanelBytes(Tail(panels))

\* what the figure shows for the rows: the chart, or the text drawn in its
\* place when the frame is empty
Shown(rows) == IF rows = <<>> THEN "nodata" ELSE "chart"

\* plt.savefig(buf, format='png'): the bytes of the figure, standing for the
\* PNG: the endpoint, then one byte per slice or bar for a chart, 0 for a
\* 'No data' text, 255 for an 'Error: ...' text
savefig(type, what, rows) ==
    <<TypeCode(type)>> \o
    (CASE what = "chart"  -> PanelBytes(Drawn(type, rows))
       [] what = "nodata" -> <<0>>
       [] what = "inner_error" -> <<255>>)

\* the figure of the except branch: 'Error generating chart: ...'
ErrorPng == <<255>>

Png(bytes, how) ==
    <<[status |-> 200, content_type |-> "image/png", body |-> bytes, via |-> how,
       stamp |-> 0]>>

\* HttpResponse(cached_chart, content_type='image/png'); stamp is history: the
\* stamp of the entry read
CachedPng(bytes, entryStamp) ==
    <<[status |-> 200, content_type |-> "image/png", body |-> bytes, via |-> "cache",
       stamp |-> entryStamp]>>

\* what the framework makes of an exception that leaves the view
ServerError ==
    <<[status |-> 500, content_type |-> "text/html", body |-> <<>>, via |-> "exception",
       stamp |-> 0]>>

tableVars == <<calls, employees, analysis>>

\* the thread's endpoint is requested
Request(p) ==
    /\ pc[p] \in {"idle", "done"}
    /\ served < MaxRequests
    /\ served' = served + 1
    /\ pc' = [pc EXCEPT ![p] = "get_key"]
    /\ key' = [key EXCEPT ![p] = <<>>]
    /\ at' = [at EXCEPT ![p] = 0]
    /\ listing' = [listing EXCEPT ![p] = {}]
    /\ fd' = [fd EXCEPT ![p] = "closed"]
    /\ data' = [data EXCEPT ![p] = <<>>]
    /\ shot' = [shot EXCEPT ![p] = "none"]
    /\ resp' = [resp EXCEPT ![p] = <<>>]
    /\ fresh' = [fresh EXCEPT ![p] = FALSE]
    /\ UNCHANGED <<now, files, tableVars, chart, seen>>

\* get_cached_chart: cache_key = f'chart_{chart_type}_{int(time.time() / cache_timeout)}'
GetKey(p) ==
    /\ pc[p] = "get_key"
    /\ key' = [key EXCEPT ![p] = cache_key(chart[p], now, DefaultTimeout)]
    /\ at' = [at EXCEPT ![p] = now]
    /\ fresh' = [fresh EXCEPT ![p] = Bucket(now, DefaultTimeout) > seen[chart[p]]]
    /\ seen' = [seen EXCEPT ![chart[p]] =
                  IF Bucket(now, DefaultTimeout) > @ THEN Bucket(now, DefaultTimeout) ELSE @]
    /\ pc' = [pc EXCEPT ![p] = "get_exists"]
    /\ UNCHANGED <<now, files, tableVars, chart, listing, fd, data, shot, resp, served>>

\* get_cached_chart: if os.path.exists(cache_path)
GetExists(p) ==
    /\ pc[p] = "get_exists"
    /\ pc' = [pc EXCEPT ![p] =
                IF cache_path(key[p]) \in DOMAIN files THEN "get_read" ELSE "render"]
    /\ UNCHANGED <<now, files, tableVars, chart, key, at, listing, fd, data, shot, resp,
                   served, seen, fresh>>

\* get_cached_chart: open(cache_path, 'rb') and f.read(), then the caller's
\* "if cached_chart: return HttpResponse(cached_chart, ...)". The open raises
\* when the file is gone, and the call is outside the endpoint's try.
GetRead(p) ==
    /\ pc[p] = "get_read"
    /\ IF cache_path(key[p]) \notin DOMAIN files
       THEN /\ resp' = [resp EXCEPT ![p] = ServerError]
            /\ pc' = [pc EXCEPT ![p] = "done"]
       ELSE LET entry == files[cache_path(key[p])]
            IN  IF entry.data # <<>>
                THEN /\ resp' = [resp EXCEPT ![p] = CachedPng(entry.data, entry.stamp)]
                     /\ pc' = [pc EXCEPT ![p] = "done"]
                ELSE /\ resp' = resp
                     /\ pc' = [pc EXCEPT ![p] = "render"]
    /\ UNCHANGED <<now, files, tableVars, chart, key, at, listing, fd, data, shot,
                   served, seen, fresh>>

\* the try block up to chart_data = buf.getvalue(): the rows are loaded into
\* the frame and the figure is drawn and saved. raised is what goes wrong:
\* nothing, the load, the drawing inside an inner try, or a statement of the
\* outer try; an exception of the outer try ends in the except branch, which
\* returns the error figure.
Render(p) ==
    /\ pc[p] = "render"
    /\ \E raised \in {"none", "load", "inner", "outer"} :
        /\ raised = "inner" => (HasInnerTry(chart[p]) /\ employees # <<>>)
        /\ IF raised \in {"load", "outer"}
           THEN /\ shot' = [shot EXCEPT ![p] = "error"]
                /\ resp' = [resp EXCEPT ![p] = Png(ErrorPng, "except")]
                /\ pc' = [pc EXCEPT ![p] = "done"]
                /\ data' = data
           ELSE LET what == IF raised = "inner" THEN "inner_error" ELSE Shown(employees)
                IN  /\ shot' = [shot EXCEPT ![p] = what]
                    /\ data' = [data EXCEPT ![p] = savefig(chart[p], what, employees)]
                    /\ pc' = [pc EXCEPT ![p] = "save_key"]
                    /\ resp' = resp
    /\ UNCHANGED <<now, files, tableVars, chart, key, at, listing, fd, served, seen, fresh>>

\* save_cached_chart: cache_key = f'chart_{chart_type}_{int(time.time() / cache_timeout)}'
SaveKey(p) ==
    /\ pc[p] = "save_key"
    /\ key' = [key EXCEPT ![p] = cache_key(chart[p], now, DefaultTimeout)]
    /\ at' = [at EXCEPT ![p] = now]
    /\ pc' = [pc EXCEPT ![p] = "save_list"]
    /\ UNCHANGED <<now, files, tableVars, chart, listing, fd, data, shot, resp, served,
                   seen, fresh>>

\* save_cached_chart: os.listdir(CHART_CACHE_DIR)
SaveList(p) ==
    /\ pc[p] = "save_list"
    /\ listing' = [listing EXCEPT ![p] = DOMAIN files]
    /\ pc' = [pc EXCEPT ![p] = "save_clean"]
    /\ UNCHANGED <<now, files, tableVars, chart, key, at, fd, data, shot, resp, served,
                   seen, fresh>>

\* save_cached_chart: the clean-up loop, up to and including its next
\* os.remove; a file that is already gone raises, which is swallowed. A thread
\* that holds the removed file open keeps writing to a file without a name.
SaveClean(p) ==
    /\ pc[p] = "save_clean"
    /\ \E f \in listing[p] :
        /\ Stale(f, chart[p], key[p])
        /\ files' = Remove(files, {f})
        /\ fd' = [q \in Threads |->
                    IF fd[q] = "open" /\ cache_path(key[q]) = f /\ f \in DOMAIN files
                    THEN "unlinked" ELSE fd[q]]
        /\ listing' = [listing EXCEPT ![p] = @ \ {f}]
    /\ UNCHANGED <<now, tableVars, pc, chart, key, at, data, shot, resp, served, seen, fresh>>

\* save_cached_chart: the loop is over; open(cache_path, 'wb'), which raises
\* when the file cannot be created
SaveOpen(p) ==
    /\ pc[p] = "save_clean"
    /\ ~ \E f \in listing[p] : Stale(f, chart[p], key[p])
    /\ listing' = [listing EXCEPT ![p] = {}]
    /\ \E ok \in BOOLEAN :
        IF ok
        THEN /\ files' = OpenWb(files, cache_path(key[p]), at[p])
             /\ fd' = [fd EXCEPT ![p] = "open"]
             /\ pc' = [pc EXCEPT ![p] = "save_write"]
             /\ UNCHANGED <<shot, resp>>
        ELSE /\ shot' = [shot EXCEPT ![p] = "error"]
             /\ resp' = [resp EXCEPT ![p] = Png(ErrorPng, "except")]
             /\ pc' = [pc EXCEPT ![p] = "done"]
             /\ UNCHANGED <<files, fd>>
    /\ UNCHANGED <<now, tableVars, chart, key, at, data, served, seen, fresh>>

\* save_cached_chart: f.write(image_data) and the close of the with block,
\* then the endpoint's return HttpResponse(chart_data, content_type='image/png')
SaveWrite(p) ==
    /\ pc[p] = "save_write"
    /\ files' = IF fd[p] = "open"
                THEN WriteAt(files, cache_path(key[p]), data[p], at[p], p)
                ELSE files
    /\ fd' = [fd EXCEPT ![p] = "closed"]
    /\ resp' = [resp EXCEPT ![p] = Png(data[p], "render")]
    /\ pc' = [pc EXCEPT ![p] = "done"]
    /\ UNCHANGED <<now, tableVars, chart, key, at, listing, data, shot, served, seen, fresh>>

\* the tables the server may find when it starts: no row, or a single row
ChartTables ==
    {<<>>} \cup
    {<<[department |-> r.department, role |-> r.role, signature |-> r.signature,
        time_posted |-> 0]>> : r \in ChartRowInputs}

InitChart ==
    /\ now = 600
    /\ files = NoFiles
    /\ calls = <<>>
    /\ employees \in ChartTables
    /\ analysis = <<>>
    /\ pc = [p \in Threads |-> "idle"]
    /\ chart \in [Threads -> ChartTypes]
    /\ IdleLocals

NextChart ==
    \/ \E p \in Threads :
          \/ Request(p) \/ GetKey(p) \/ GetExists(p) \/ GetRead(p) \/ Render(p)
          \/ SaveKey(p) \/ SaveList(p) \/ SaveClean(p) \/ SaveOpen(p) \/ SaveWrite(p)
    \/ Tick

SpecChart == InitChart /\ [][NextChart]_vars

----------------------------------------------------------------------------
(* Two save_cached_chart calls of one chart type running together *)

\* the image_data the two calls are given
RaceBlobs == {<<1, 1>>, <<1, 2, 2>>}

\* the directory the two calls find: empty, or the entry an earlier request
\* left under bucket 9 or under bucket 10
RaceDirs(type, t0) ==
    {NoFiles} \cup
    {[f \in {EntryName(type, Bucket(t, DefaultTimeout))} |->
        [data |-> <<7, 7, 7, 7>>, stamp |-> t, by |-> "caller"]] :
            t \in {t \in {599, 600} : t <= t0}}

InitRace ==
    /\ now \in {599, 600}
    /\ \E type \in ChartTypes :
          /\ chart = [p \in Threads |-> type]
          /\ files \in RaceDirs(type, now)
    /\ calls = <<>>
    /\ employees = <<>>
    /\ analysis = <<>>
    /\ pc = [p \in Threads |-> "save_key"]
    /\ key = [p \in Threads |-> <<>>]
    /\ at = [p \in Threads |-> 0]
    /\ listing = [p \in Threads |-> {}]
    /\ fd = [p \in Threads |-> "closed"]
    /\ data \in [Threads -> RaceBlobs]
    /\ shot = [p \in Threads |-> "chart"]
    /\ resp = [p \in Threads |-> <<>>]
    /\ served = 0
    /\ seen = [t \in ChartTypes |-> -1]
    /\ fresh = [p \in Threads |-> FALSE]

NextRace ==
    \/ \E p \in Threads :
          SaveKey(p) \/ SaveList(p) \/ SaveClean(p) \/ SaveOpen(p) \/ SaveWrite(p)
    \/ Tick

SpecRace == InitRace /\ [][NextRace]_vars

----------------------------------------------------------------------------
(* Claims about the chart endpoints *)

Answered(p) == pc[p] = "done" /\ resp[p] # <<>>

InSave(p) == pc[p] \in {"save_key", "save_list", "save_clean", "save_write"}

\* C5: whatever fails while a chart request is handled, the response is an
\* HTTP 200 image/png; nothing leaves the view as an unhandled exception.
C5_AlwaysPng ==
    \A p \in Threads :
        Answered(p) =>
            /\ resp[p][1].status = 200
            /\ resp[p][1].content_type = "image/png"

\* the bytes of a figure that shows a text in place of a chart
IsPlaceholder(bytes) ==
    \/ bytes = ErrorPng
    \/ Len(bytes) = 2 /\ bytes[2] \in {0, 255}

\* C6: save_cached_chart is never called with a placeholder figure, and no
\* entry of the cache holds one.
C6_NoPlaceholderCached ==
    /\ \A p \in Threads : InSave(p) => shot[p] = "chart"
    /\ \A f \in DOMAIN files : ~ IsPlaceholder(files[f].data)

\* the 60-second interval an instant lies in, counted from the epoch
Interval(t) == CHOOSE b \in 0..20 : 60 * b <= t /\ t < 60 * (b + 1)

FromCache(p) == Answered(p) /\ resp[p][1].via = "cache"

\* the bytes served from the cache were written by a store that computed its
\* key in the interval in which the lookup computed its own, so less than one
\* window away
ServedFresh(p) ==
    FromCache(p) =>
        /\ Interval(resp[p][1].stamp) = Interval(at[p])
        /\ at[p] - resp[p][1].stamp < 60
        /\ resp[p][1].stamp - at[p] < 60

\* C8, as claimed: an answer from the cache carries bytes stored under the
\* current bucket index, and the first request to look a chart type up under
\* a new bucket index misses.
C8_FirstInBucketMisses ==
    \A p \in Threads :
        /\ ServedFresh(p)
        /\ (Answered(p) /\ fresh[p]) => resp[p][1].via # "cache"

\* a lookup that finds no entry under its own key goes on to render, whatever
\* other entries exist, and one that finds it goes on to read it
MissRenders(p) ==
    (pc[p] = "get_exists" /\ pc'[p] # "get_exists") =>
        IF EntryName(chart[p], Interval(at[p])) \in DOMAIN files
        THEN pc'[p] = "get_read"
        ELSE pc'[p] = "render"

\* a render that raises nothing is handed to save_cached_chart
RenderStores(p) ==
    (pc[p] = "render" /\ pc'[p] # "render") =>
        \/ pc'[p] = "save_key" /\ data'[p] # <<>>
        \/ pc'[p] = "done" /\ resp'[p][1].via = "except"

\* C8, amended: an answer from the cache carries bytes written by a store
\* whose key was computed in the 60-second interval of the lookup; a lookup
\* misses exactly when no entry exists under its own bucket index (so an
\* entry that a request which missed in the old bucket stored after the
\* advance is served to the first request of the new bucket), and a request
\* that misses renders again and, unless a step raises, stores again.
C8_FreshOrMiss ==
    /\ [](\A p \in Threads : ServedFresh(p))
    /\ [][\A p \in Threads : MissRenders(p) /\ RenderStores(p)]_vars

\* an answer from the cache, at a later instant of the bucket in which the
\* entry was stored
C8_Witness ==
    \E p \in Threads :
        /\ FromCache(p)
        /\ at[p] = 659
        /\ resp[p][1].stamp = 600

\* the first lookup under bucket 11 is answered from the cache
C8_StraddleReached ==
    \E p \in Threads : FromCache(p) /\ fresh[p] /\ Interval(at[p]) = 11

----------------------------------------------------------------------------
(* Claims about two stores running together *)

Stored(p) == Answered(p) /\ resp[p][1].via = "render"

BothStored == \A p \in Threads : Stored(p)

SameKey == \A p, q \in Threads : key[p] = key[q]

\* C9: after two stores under one key have both finished, the entry of that
\* key exists and holds the complete bytes of the store that wrote last.
C9_LastWriterWins ==
    (BothStored /\ SameKey) =>
        \A p \in Threads :
            /\ cache_path(key[p]) \in DOMAIN files
            /\ files[cache_path(key[p])].data = data[files[cache_path(key[p])].by]

\* the entries of the chart type the two stores are of
RaceEntries == EntriesOf(files, chart[CHOOSE p \in Threads : TRUE])

\* C10: after two stores of one chart type under different bucket indices
\* have both finished, one or two entries of that type exist, each under the
\* key of one of the stores and holding exactly that store's bytes.
C10_OneOrTwoIntact ==
    (BothStored /\ ~ SameKey) =>
        /\ Cardinality(RaceEntries) \in {1, 2}
        /\ RaceEntries \subseteq {cache_path(key[p]) : p \in Threads}
        /\ \A p \in Threads :
              cache_path(key[p]) \in RaceEntries => files[cache_path(key[p])].data = data[p]

\* the store of the older bucket cleaned up last: the newer entry is gone
C10_Witness ==
    /\ BothStored /\ ~ SameKey
    /\ \E p, q \in Threads :
          /\ at[p] < at[q]
          /\ RaceEntries = {cache_path(key[p])}

\* both entries are left
C10_DuplicateReached ==
    /\ BothStored /\ ~ SameKey
    /\ Cardinality(RaceEntries) = 2

----------------------------------------------------------------------------
(* The frame of a store and of a lookup *)

\* the entries of chart type u are the same files with the same contents
\* before and after the step
SameEntries(u) ==
    /\ EntriesOf(files', u) = EntriesOf(files, u)
    /\ \A f \in EntriesOf(files, u) : files'[f] = files[f]

\* the step is a call of one of the two helpers
IsCall == Len(calls') = Len(calls) + 1

\* C11: a store of one chart type neither deletes nor rewrites an entry of
\* any other chart type, and a lookup changes no entry at all.
C11_OtherTypesUntouched ==
    [][IsCall =>
          LET c == calls'[Len(calls')]
          IN  IF IsGet(c) THEN files' = files
              ELSE \A u \in ChartTypes \ {c.type} : SameEntries(u)]_vars

\* a store of one chart type was made while an entry of another chart type
\* existed, and that entry is there as it was stored
C11_Witness ==
    /\ Len(calls) = 2
    /\ IsSave(calls[1]) /\ IsSave(calls[2])
    /\ calls[1].type # calls[2].type
    /\ EntryName(calls[1].type, calls[1].bucket) \in DOMAIN files
    /\ files[EntryName(calls[1].type, calls[1].bucket)].data = calls[1].bytes
    /\ files[EntryName(calls[1].type, calls[1].bucket)].stamp = calls[1].at
    /\ calls[1].at < calls[2].at

\* a lookup was made while entries existed
C11_LookupReached ==
    /\ Len(calls) = 2
    /\ IsSave(calls[1]) /\ IsGet(calls[2])
    /\ DOMAIN files # {}

\* the position and the locals of a request
Locals(p) == <<pc[p], key[p], at[p], listing[p], fd[p], data[p], shot[p], resp[p]>>

\* the same frame for the steps of concurrent requests: while no request of
\* chart type u takes a step, the entries of u stay as they are
C11_StepwiseFrame ==
    [][\A u \in ChartTypes :
          (\A p \in Threads : chart[p] = u => Locals(p)' = Locals(p)) => SameEntries(u)]_vars

====
